---- MODULE Spec2Model ----
(***************************************************************************)
(* Model of src/tools.ts: the three agent tools                            *)
(*   getFileChangesInDirectory  (listChanges)                              *)
(*   generateCommitMessage                                                 *)
(*   writeReviewToMarkdown      (writeReview)                              *)
(* Each async function is a process whose steps are cut at its awaits.     *)
(* JavaScript strings that the code inspects or builds are sequences of    *)
(* one-character strings; Chars gives the characters of a path or type.    *)
(***************************************************************************)
EXTENDS Integers, Sequences, FiniteSets, TLC

VARIABLES
  wc,          \* the working copy: path -> pending change, or NoChange
  edits,       \* number of concurrent modifications of the working copy so far
  gcmPc, gcmType, gcmSummary, gcmDetected, gcmReads, gcmResult,
  lcPc, lcSummary, lcIdx, lcDiffs, lcReads, lcResult,
  wrPc, wrInput, wrDoc, wrOps, wrDisk, wrResult

gcmVars == <<gcmPc, gcmType, gcmSummary, gcmDetected, gcmReads, gcmResult>>
lcVars  == <<lcPc, lcSummary, lcIdx, lcDiffs, lcReads, lcResult>>
wrVars  == <<wrPc, wrInput, wrDoc, wrOps, wrDisk, wrResult>>
vars    == <<wc, edits, gcmVars, lcVars, wrVars>>

\* ------------------------------------------------------------------ bounds
MaxFiles == 2     \* changed files in the working copy at the start of a call
MaxLines == 12    \* largest per-file insertion / deletion count
MaxEdits == 1     \* concurrent modifications of the working copy during a call

\* ----------------------------------------------------------- string helpers
\* String.prototype.includes
includes(s, sub) ==
  \E i \in 1..(Len(s) - Len(sub) + 1) : SubSeq(s, i, i + Len(sub) - 1) = sub

\* String.prototype.endsWith
endsWith(s, suf) ==
  Len(s) >= Len(suf) /\ SubSeq(s, Len(s) - Len(suf) + 1, Len(s)) = suf

\* s.split('/')[0]: the text before the first '/', the whole of s without one
splitFirst(s) ==
  IF \E i \in 1..Len(s) : s[i] = "/"
    THEN LET k == CHOOSE i \in 1..Len(s) :
                    s[i] = "/" /\ \A j \in 1..(i - 1) : s[j] # "/"
         IN SubSeq(s, 1, k - 1)
    ELSE s

\* template-literal conversion of a non-negative integer: its decimal digits
RECURSIVE Decimal(_)
Decimal(n) ==
  LET d == <<"0","1","2","3","4","5","6","7","8","9">>[(n % 10) + 1]
  IN IF n < 10 THEN <<d>> ELSE Decimal(n \div 10) \o <<d>>

\* the characters of the paths and commit types the model uses
Chars(s) ==
  CASE s = "README.md"         -> <<"R","E","A","D","M","E",".","m","d">>
    [] s = "bun.lock"          -> <<"b","u","n",".","l","o","c","k">>
    [] s = "dist"              -> <<"d","i","s","t">>
    [] s = "dist/index.js"     -> <<"d","i","s","t","/","i","n","d","e","x",".","j","s">>
    [] s = "docs/api/guide.md"     -> <<"d","o","c","s","/","a","p","i","/","g","u","i","d","e",".","m","d">>
    [] s = "docs/spec.md"      -> <<"d","o","c","s","/","s","p","e","c",".","m","d">>
    [] s = "package.json"      -> <<"p","a","c","k","a","g","e",".","j","s","o","n">>
    [] s = "src/tools.test.ts" -> <<"s","r","c","/","t","o","o","l","s",".","t","e","s","t",".","t","s">>
    [] s = "src/tools.ts"      -> <<"s","r","c","/","t","o","o","l","s",".","t","s">>
    [] s = "feat"              -> <<"f","e","a","t">>
    [] s = "fix"               -> <<"f","i","x">>
    [] s = "docs"              -> <<"d","o","c","s">>
    [] s = "style"             -> <<"s","t","y","l","e">>
    [] s = "refactor"          -> <<"r","e","f","a","c","t","o","r">>
    [] s = "perf"              -> <<"p","e","r","f">>
    [] s = "test"              -> <<"t","e","s","t">>
    [] s = "chore"             -> <<"c","h","o","r","e">>

\* -------------------------------------------------------- the working copy
\* paths of the repository, in the order git lists them
PathOrder ==
  << "README.md", "bun.lock", "dist", "dist/index.js", "docs/api/guide.md",
     "docs/spec.md", "package.json", "src/tools.test.ts", "src/tools.ts" >>

Paths == { PathOrder[i] : i \in 1..Len(PathOrder) }

NoChange == [changed |-> FALSE]

LineCounts == {0, MaxLines}

Changes ==
  { [changed |-> TRUE, insertions |-> i, deletions |-> d] :
      i \in LineCounts, d \in LineCounts }

ChangedPaths(w) == { p \in Paths : w[p].changed }

WorkingCopies ==
  { w \in [Paths -> Changes \cup {NoChange}] :
      Cardinality(ChangedPaths(w)) <= MaxFiles }

RECURSIVE SummaryFiles(_, _)
SummaryFiles(w, i) ==
  IF i > Len(PathOrder) THEN << >>
  ELSE LET p == PathOrder[i] IN
       IF w[p].changed
         THEN << [file |-> p, insertions |-> w[p].insertions,
                  deletions |-> w[p].deletions] >> \o SummaryFiles(w, i + 1)
         ELSE SummaryFiles(w, i + 1)

RECURSIVE SumOf(_, _)
SumOf(files, field) ==
  IF files = << >> THEN 0 ELSE Head(files)[field] + SumOf(Tail(files), field)

\* git.diffSummary(): one entry per changed path and the two totals
diffSummary(w) ==
  LET files == SummaryFiles(w, 1)
  IN [files |-> files,
      insertions |-> SumOf(files, "insertions"),
      deletions |-> SumOf(files, "deletions")]

\* git.diff(["--", p]): the pending change of p now, empty when there is none
diffOf(w, p) ==
  IF w[p].changed
    THEN [empty |-> FALSE, insertions |-> w[p].insertions,
          deletions |-> w[p].deletions]
    ELSE [empty |-> TRUE]

\* ------------------------------------------------- generateCommitMessage
CommitTypes ==
  {"feat", "fix", "docs", "style", "refactor", "perf", "test", "chore"}

NoType == "undefined"

NoChangesText == <<"N","o"," ","c","h","a","n","g","e","s"," ","d","e","t","e","c","t","e","d"," ","i","n"," ","t","h","e"," ","r","e","p","o","s","i","t","o","r","y">>

changedFilesOf(summary) ==
  { summary.files[i].file : i \in 1..Len(summary.files) }

\* detectType with the documentation rule tried before the test rule
detectType_docsFirst(type, summary) ==
  IF type # NoType THEN type
  ELSE LET changedFiles == changedFilesOf(summary) IN
    IF \E f \in changedFiles :
         includes(Chars(f), <<"R","E","A","D","M","E">>) \/ endsWith(Chars(f), <<".","m","d">>)
      THEN "docs"
    ELSE IF \E f \in changedFiles :
         includes(Chars(f), <<"t","e","s","t">>) \/ includes(Chars(f), <<"s","p","e","c">>)
      THEN "test"
    ELSE IF \E f \in changedFiles : includes(Chars(f), <<"p","a","c","k","a","g","e",".","j","s","o","n">>)
      THEN "chore"
    ELSE IF summary.insertions > summary.deletions
      THEN "feat"
    ELSE "fix"

\* lines 52-67: the explicit type, else the first matching rule
detectType(type, summary) ==
  IF type # NoType THEN type
  ELSE LET changedFiles == changedFilesOf(summary) IN
    IF \E f \in changedFiles :
         includes(Chars(f), <<"t","e","s","t">>) \/ includes(Chars(f), <<"s","p","e","c">>)
      THEN "test"
    ELSE IF \E f \in changedFiles :
         includes(Chars(f), <<"R","E","A","D","M","E">>) \/ endsWith(Chars(f), <<".","m","d">>)
      THEN "docs"
    ELSE IF \E f \in changedFiles : includes(Chars(f), <<"p","a","c","k","a","g","e",".","j","s","o","n">>)
      THEN "chore"
    ELSE IF summary.insertions > summary.deletions
      THEN "feat"
    ELSE "fix"

\* scopeTextOf without the test that exactly one file changed
scopeTextOf_anyCount(summary) ==
  LET scope == splitFirst(Chars(summary.files[1].file))
  IN IF scope # << >> /\ scope # Chars(summary.files[1].file)
       THEN <<"(">> \o scope \o <<")">>
       ELSE << >>

\* lines 76-77
scopeTextOf(summary) ==
  LET filesChanged == Len(summary.files)
      scope == IF filesChanged = 1
                 THEN splitFirst(Chars(summary.files[1].file))
                 ELSE << >>
  IN IF scope # << >> /\ scope # Chars(summary.files[1].file)
       THEN <<"(">> \o scope \o <<")">>
       ELSE << >>

\* descriptionOf with the refactor branch lost
descriptionOf_noRefactor(detectedType) ==
  IF detectedType = "feat" THEN <<"a","d","d"," ","n","e","w"," ","f","u","n","c","t","i","o","n","a","l","i","t","y">>
  ELSE IF detectedType = "fix" THEN <<"r","e","s","o","l","v","e"," ","i","s","s","u","e","s">>
  ELSE IF detectedType = "docs" THEN <<"u","p","d","a","t","e"," ","d","o","c","u","m","e","n","t","a","t","i","o","n">>
  ELSE IF detectedType = "test" THEN <<"a","d","d","/","u","p","d","a","t","e"," ","t","e","s","t","s">>
  ELSE IF detectedType = "chore" THEN <<"u","p","d","a","t","e"," ","d","e","p","e","n","d","e","n","c","i","e","s","/","c","o","n","f","i","g">>
  ELSE <<"m","a","k","e"," ","c","h","a","n","g","e","s">>

\* lines 79-94
descriptionOf(detectedType) ==
  IF detectedType = "feat" THEN <<"a","d","d"," ","n","e","w"," ","f","u","n","c","t","i","o","n","a","l","i","t","y">>
  ELSE IF detectedType = "fix" THEN <<"r","e","s","o","l","v","e"," ","i","s","s","u","e","s">>
  ELSE IF detectedType = "docs" THEN <<"u","p","d","a","t","e"," ","d","o","c","u","m","e","n","t","a","t","i","o","n">>
  ELSE IF detectedType = "refactor" THEN <<"i","m","p","r","o","v","e"," ","c","o","d","e"," ","s","t","r","u","c","t","u","r","e">>
  ELSE IF detectedType = "test" THEN <<"a","d","d","/","u","p","d","a","t","e"," ","t","e","s","t","s">>
  ELSE IF detectedType = "chore" THEN <<"u","p","d","a","t","e"," ","d","e","p","e","n","d","e","n","c","i","e","s","/","c","o","n","f","i","g">>
  ELSE <<"m","a","k","e"," ","c","h","a","n","g","e","s">>

\* lines 96-98
commitMessageOf(detectedType, summary) ==
  Chars(detectedType) \o scopeTextOf(summary) \o <<":"," ">>
    \o descriptionOf(detectedType) \o <<"\n","\n">>
    \o Decimal(Len(summary.files)) \o <<" ","f","i","l","e","(","s",")"," ","c","h","a","n","g","e","d",","," ">>
    \o Decimal(summary.insertions) \o <<" ","i","n","s","e","r","t","i","o","n","(","s",")",","," ">>
    \o Decimal(summary.deletions) \o <<" ","d","e","l","e","t","i","o","n","(","s",")">>

\* composeResult over the summary with the excluded names filtered out
composeResult_filtered(detectedType, summary) ==
  LET kept == SelectSeq(summary.files,
                        LAMBDA f : f.file \notin {"dist", "bun.lock"})
  IN [kind |-> "object",
      commitMessage |-> commitMessageOf(detectedType, summary),
      stats |-> [filesChanged |-> Len(kept),
                 insertions |-> summary.insertions,
                 deletions |-> summary.deletions,
                 type |-> detectedType],
      affectedFiles |-> [i \in 1..Len(kept) |-> kept[i].file]]

\* lines 100-109
composeResult(detectedType, summary) ==
  [kind |-> "object",
   commitMessage |-> commitMessageOf(detectedType, summary),
   stats |-> [filesChanged |-> Len(summary.files),
              insertions |-> summary.insertions,
              deletions |-> summary.deletions,
              type |-> detectedType],
   affectedFiles |-> [i \in 1..Len(summary.files) |-> summary.files[i].file]]

NoSummary == [files |-> << >>, insertions |-> 0, deletions |-> 0]
Pending == [kind |-> "pending"]

\* line 43-45: the call, up to the await of git.diffSummary()
GcmCall(type) ==
  /\ gcmPc = "idle"
  /\ gcmPc' = "summary"
  /\ gcmType' = type
  /\ gcmReads' = Append(gcmReads, "diffSummary")
  /\ UNCHANGED <<wc, edits, gcmSummary, gcmDetected, gcmResult, lcVars, wrVars>>

\* GcmSummaryResolve with the type check ahead of the empty-summary check
GcmSummaryResolve_typeFirst ==
  /\ gcmPc = "summary"
  /\ LET summary == diffSummary(wc) IN
       /\ gcmSummary' = summary
       /\ IF gcmType = NoType /\ Len(summary.files) = 0
            THEN /\ gcmResult' = [kind |-> "string", text |-> NoChangesText]
                 /\ gcmPc' = "done"
                 /\ UNCHANGED <<gcmDetected, gcmReads>>
            ELSE /\ gcmDetected' = detectType(gcmType, summary)
                 /\ gcmReads' = Append(gcmReads, "diff")
                 /\ gcmPc' = "diff"
                 /\ UNCHANGED gcmResult
  /\ UNCHANGED <<wc, edits, gcmType, lcVars, wrVars>>

\* lines 45-70: the summary arrives; the sentinel, or classification and the
\* request of the whole diff
GcmSummaryResolve ==
  /\ gcmPc = "summary"
  /\ LET summary == diffSummary(wc) IN
       /\ gcmSummary' = summary
       /\ IF Len(summary.files) = 0
            THEN /\ gcmResult' = [kind |-> "string", text |-> NoChangesText]
                 /\ gcmPc' = "done"
                 /\ UNCHANGED <<gcmDetected, gcmReads>>
            ELSE /\ gcmDetected' = detectType(gcmType, summary)
                 /\ gcmReads' = Append(gcmReads, "diff")
                 /\ gcmPc' = "diff"
                 /\ UNCHANGED gcmResult
  /\ UNCHANGED <<wc, edits, gcmType, lcVars, wrVars>>

\* line 45: git.diffSummary() rejects; nothing catches it
GcmSummaryReject ==
  /\ gcmPc = "summary"
  /\ gcmPc' = "failed"
  /\ gcmResult' = [kind |-> "error", from |-> "diffSummary"]
  /\ UNCHANGED <<wc, edits, gcmType, gcmSummary, gcmDetected, gcmReads, lcVars, wrVars>>

\* lines 70-109: the diff text arrives (and is not used); compose and return
GcmDiffResolve ==
  /\ gcmPc = "diff"
  /\ gcmPc' = "done"
  /\ gcmResult' = composeResult(gcmDetected, gcmSummary)
  /\ UNCHANGED <<wc, edits, gcmType, gcmSummary, gcmDetected, gcmReads, lcVars, wrVars>>

\* line 70: git.diff() rejects; nothing catches it
GcmDiffReject ==
  /\ gcmPc = "diff"
  /\ gcmPc' = "failed"
  /\ gcmResult' = [kind |-> "error", from |-> "diff"]
  /\ UNCHANGED <<wc, edits, gcmType, gcmSummary, gcmDetected, gcmReads, lcVars, wrVars>>

GcmIdle ==
  /\ gcmPc = "idle" /\ gcmType = NoType /\ gcmSummary = NoSummary
  /\ gcmDetected = NoType /\ gcmReads = << >> /\ gcmResult = Pending

LcIdle ==
  /\ lcPc = "idle" /\ lcSummary = << >> /\ lcIdx = 0
  /\ lcDiffs = << >> /\ lcReads = << >> /\ lcResult = Pending

WrIdle ==
  /\ wrPc = "idle" /\ wrInput = [set |-> FALSE] /\ wrDoc = << >>
  /\ wrOps = << >> /\ wrDisk = [written |-> FALSE] /\ wrResult = Pending


\* ---------------------------------------------- getFileChangesInDirectory
\* line 7
excludeFiles == {"dist", "bun.lock"}

\* isExcluded matching an excluded name anywhere in the path
isExcluded_substring(p) ==
  \E e \in excludeFiles : includes(Chars(p), Chars(e))

\* line 21: Array.prototype.includes, an exact comparison of the whole path
isExcluded(p) == p \in excludeFiles

\* lines 20-22: from entry i on, the index of the next entry that is not
\* skipped, Len(files) + 1 when the loop runs out
RECURSIVE nextRetained(_, _)
nextRetained(files, i) ==
  IF i > Len(files) THEN i
  ELSE IF isExcluded(files[i].file) THEN nextRetained(files, i + 1)
  ELSE i

\* lines 20-26: run the loop from entry i up to its next await (the read of
\* one path's diff is issued) or to the return of diffs
lcContinue(files, i, diffs) ==
  LET k == nextRetained(files, i) IN
    /\ lcIdx' = k
    /\ lcDiffs' = diffs
    /\ IF k > Len(files)
         THEN /\ lcPc' = "done"
              /\ lcResult' = [kind |-> "array", diffs |-> diffs]
              /\ UNCHANGED lcReads
         ELSE /\ lcPc' = "diff"
              /\ lcReads' = Append(lcReads, [op |-> "diff", file |-> files[k].file])
              /\ UNCHANGED lcResult

\* lines 15-17: the call, up to the await of git.diffSummary()
LcCall ==
  /\ lcPc = "idle"
  /\ lcPc' = "summary"
  /\ lcReads' = Append(lcReads, [op |-> "diffSummary"])
  /\ UNCHANGED <<wc, edits, lcSummary, lcIdx, lcDiffs, lcResult, gcmVars, wrVars>>

\* lines 17-22: the summary arrives and the loop starts
LcSummaryResolve ==
  /\ lcPc = "summary"
  /\ LET files == diffSummary(wc).files IN
       /\ lcSummary' = files
       /\ lcContinue(files, 1, << >>)
  /\ UNCHANGED <<wc, edits, gcmVars, wrVars>>

\* line 17: git.diffSummary() rejects; nothing catches it
LcSummaryReject ==
  /\ lcPc = "summary"
  /\ lcPc' = "failed"
  /\ lcResult' = [kind |-> "error", from |-> "diffSummary"]
  /\ UNCHANGED <<wc, edits, lcSummary, lcIdx, lcDiffs, lcReads, gcmVars, wrVars>>

\* lines 22-26: one path's diff arrives, is pushed, and the loop goes on
LcDiffResolve ==
  /\ lcPc = "diff"
  /\ LET file == lcSummary[lcIdx].file
         diff == diffOf(wc, file)
     IN lcContinue(lcSummary, lcIdx + 1,
                   Append(lcDiffs, [file |-> file, diff |-> diff]))
  /\ UNCHANGED <<wc, edits, lcSummary, gcmVars, wrVars>>

\* LcDiffReject that issues the failed read again
LcDiffReject_retry ==
  /\ lcPc = "diff"
  /\ lcReads' = Append(lcReads, lcReads[Len(lcReads)])
  /\ UNCHANGED <<wc, edits, lcPc, lcSummary, lcIdx, lcDiffs, lcResult, gcmVars, wrVars>>

\* line 22: git.diff() rejects; nothing catches it
LcDiffReject ==
  /\ lcPc = "diff"
  /\ lcPc' = "failed"
  /\ lcResult' = [kind |-> "error", from |-> "diff"]
  /\ UNCHANGED <<wc, edits, lcSummary, lcIdx, lcDiffs, lcReads, gcmVars, wrVars>>

\* the working copy is an external resource: someone else changes or reverts
\* one path while the call is suspended at an await
EditValues ==
  { NoChange, [changed |-> TRUE, insertions |-> 0, deletions |-> MaxLines] }

Edit(p, c) ==
  /\ lcPc \in {"summary", "diff"}
  /\ edits < MaxEdits
  /\ wc[p] # c
  /\ wc' = [wc EXCEPT ![p] = c]
  /\ edits' = edits + 1
  /\ UNCHANGED <<lcVars, gcmVars, wrVars>>

\* --------------------------------------------------- writeReviewToMarkdown
\* path.dirname (posix) of a path without trailing separators
dirname(path) ==
  IF \A i \in 1..Len(path) : path[i] # "/" THEN <<".">>
  ELSE LET k == CHOOSE i \in 1..Len(path) :
                  path[i] = "/" /\ \A j \in (i + 1)..Len(path) : path[j] # "/"
       IN IF k = 1 THEN <<"/">> ELSE SubSeq(path, 1, k - 1)

\* new Date().toISOString()
isoNow == <<"2","0","2","5","-","0","9","-","2","0","T","1","0",":","0","0",":","0","0",".","0","0","0","Z">>

NoTitle == [given |-> FALSE]

\* markdownContentOf testing for any '#' instead of '##'
markdownContentOf_anyHash(reviewContent, title, includeTimestamp) ==
  LET timestamp == IF includeTimestamp THEN isoNow ELSE << >>
      reviewTitle == IF title.given /\ title.text # << >>
                       THEN title.text ELSE <<"C","o","d","e"," ","R","e","v","i","e","w">>
      head == <<"#"," ">> \o reviewTitle \o <<"\n","\n">>
      stamp == IF timestamp # << >>
                 THEN <<"*","*","G","e","n","e","r","a","t","e","d",":","*","*"," ">> \o timestamp \o <<"\n","\n">> ELSE << >>
      body == head \o stamp \o <<"-","-","-","\n","\n">> \o reviewContent
  IN IF ~includes(reviewContent, <<"#">>)
       THEN body \o <<"\n","\n","#","#"," ","S","u","m","m","a","r","y","\n","\n">>
                 \o <<"T","h","i","s"," ","r","e","v","i","e","w"," ","w","a","s"," ","g","e","n","e","r","a","t","e","d"," ","a","u","t","o","m","a","t","i","c","a","l","l","y","."," ","P","l","e","a","s","e"," ","r","e","v","i","e","w"," ","t","h","e"," ","s","u","g","g","e","s","t","i","o","n","s"," ","a","n","d"," ","a","p","p","l","y"," ","t","h","e","m"," ","a","s"," ","a","p","p","r","o","p","r","i","a","t","e",".","\n">>
       ELSE body

\* lines 134-150
markdownContentOf(reviewContent, title, includeTimestamp) ==
  LET timestamp == IF includeTimestamp THEN isoNow ELSE << >>
      reviewTitle == IF title.given /\ title.text # << >>
                       THEN title.text ELSE <<"C","o","d","e"," ","R","e","v","i","e","w">>
      head == <<"#"," ">> \o reviewTitle \o <<"\n","\n">>
      stamp == IF timestamp # << >>
                 THEN <<"*","*","G","e","n","e","r","a","t","e","d",":","*","*"," ">> \o timestamp \o <<"\n","\n">> ELSE << >>
      body == head \o stamp \o <<"-","-","-","\n","\n">> \o reviewContent
  IN IF ~includes(reviewContent, <<"#","#">>) /\ ~includes(reviewContent, <<"#","#","#">>)
       THEN body \o <<"\n","\n","#","#"," ","S","u","m","m","a","r","y","\n","\n">>
                 \o <<"T","h","i","s"," ","r","e","v","i","e","w"," ","w","a","s"," ","g","e","n","e","r","a","t","e","d"," ","a","u","t","o","m","a","t","i","c","a","l","l","y","."," ","P","l","e","a","s","e"," ","r","e","v","i","e","w"," ","t","h","e"," ","s","u","g","g","e","s","t","i","o","n","s"," ","a","n","d"," ","a","p","p","l","y"," ","t","h","e","m"," ","a","s"," ","a","p","p","r","o","p","r","i","a","t","e",".","\n">>
       ELSE body

\* lines 154-159
successResult(filePath, markdownContent) ==
  [kind |-> "object", success |-> TRUE, filePath |-> filePath,
   message |-> <<"C","o","d","e"," ","r","e","v","i","e","w"," ","s","u","c","c","e","s","s","f","u","l","l","y"," ","w","r","i","t","t","e","n"," ","t","o"," ">> \o filePath,
   size |-> Len(markdownContent)]

\* catchResult that lets the error go on to the caller
catchResult_rethrow(error, filePath) == [kind |-> "error"]

\* lines 160-166: the catch clause
catchResult(error, filePath) ==
  [kind |-> "object", success |-> FALSE,
   error |-> IF error.isError THEN error.message
             ELSE <<"U","n","k","n","o","w","n"," ","e","r","r","o","r"," ","o","c","c","u","r","r","e","d">>,
   filePath |-> filePath]

FilePaths == { <<"r","e","v","i","e","w",".","m","d">>, <<"r","e","v","i","e","w","s","/","o","u","t","/","r","e","v","i","e","w",".","m","d">> }

Titles == { NoTitle, [given |-> TRUE, text |-> << >>],
            [given |-> TRUE, text |-> <<"P","R"," ","7">>] }

ReviewContents ==
  { <<"o","k">>, <<"#"," ","F","i","n","d","i","n","g","s","\n","o","k">>, <<"#","#"," ","N","o","t","e","s","\n","o","k">>, <<"#","#","#"," ","N","i","t">>, <<"a","#","#","b">>,
    <<"u","s","e"," ","#","1","\n","#","#","#","#"," ","D","e","e","p">> }

Errors ==
  { [isError |-> TRUE, message |-> <<"E","A","C","C","E","S">>], [isError |-> FALSE] }

WrInputs ==
  { [set |-> TRUE, filePath |-> f, reviewContent |-> r, title |-> t,
     includeTimestamp |-> b] :
      f \in FilePaths, r \in ReviewContents, t \in Titles, b \in BOOLEAN }

\* set the outcome of the last file-system call of the log
settle(ops, outcome) == [ops EXCEPT ![Len(ops)].outcome = outcome]

\* lines 128-132: the call, up to the await of mkdir
WrCall(input) ==
  /\ wrPc = "idle"
  /\ wrPc' = "mkdir"
  /\ wrInput' = input
  /\ wrOps' = Append(wrOps, [op |-> "mkdir", path |-> dirname(input.filePath),
                             outcome |-> "pending"])
  /\ UNCHANGED <<wc, edits, wrDoc, wrDisk, wrResult, gcmVars, lcVars>>

\* lines 132-152: the directory exists; build the document and issue the write
WrMkdirResolve ==
  /\ wrPc = "mkdir"
  /\ wrPc' = "write"
  /\ wrDoc' = markdownContentOf(wrInput.reviewContent, wrInput.title,
                                wrInput.includeTimestamp)
  /\ wrOps' = Append(settle(wrOps, "ok"),
                     [op |-> "writeFile", path |-> wrInput.filePath,
                      outcome |-> "pending"])
  /\ UNCHANGED <<wc, edits, wrInput, wrDisk, wrResult, gcmVars, lcVars>>

\* lines 132, 160-166: mkdir rejects; the catch clause returns
WrMkdirReject(error) ==
  /\ wrPc = "mkdir"
  /\ wrPc' = "done"
  /\ wrOps' = settle(wrOps, "failed")
  /\ wrResult' = catchResult(error, wrInput.filePath)
  /\ UNCHANGED <<wc, edits, wrInput, wrDoc, wrDisk, gcmVars, lcVars>>

\* lines 152-159: the document is on disk; return the success record
WrWriteResolve ==
  /\ wrPc = "write"
  /\ wrPc' = "done"
  /\ wrOps' = settle(wrOps, "ok")
  /\ wrDisk' = [written |-> TRUE, path |-> wrInput.filePath, content |-> wrDoc]
  /\ wrResult' = successResult(wrInput.filePath, wrDoc)
  /\ UNCHANGED <<wc, edits, wrInput, wrDoc, gcmVars, lcVars>>

\* lines 152, 160-166: writeFile rejects; the catch clause returns
WrWriteReject(error) ==
  /\ wrPc = "write"
  /\ wrPc' = "done"
  /\ wrOps' = settle(wrOps, "failed")
  /\ wrResult' = catchResult(error, wrInput.filePath)
  /\ UNCHANGED <<wc, edits, wrInput, wrDoc, wrDisk, gcmVars, lcVars>>

\* ---------------------------------------------------------- specifications

InitGcm ==
  /\ wc \in WorkingCopies
  /\ edits = 0
  /\ GcmIdle /\ LcIdle /\ WrIdle

NextGcm ==
  \/ \E type \in CommitTypes \cup {NoType} : GcmCall(type)
  \/ GcmSummaryResolve
  \/ GcmSummaryReject
  \/ GcmDiffResolve
  \/ GcmDiffReject

SpecGcm == InitGcm /\ [][NextGcm]_vars

LcChange == [changed |-> TRUE, insertions |-> MaxLines, deletions |-> 0]

InitLc ==
  /\ wc \in { w \in [Paths -> {LcChange, NoChange}] :
                Cardinality(ChangedPaths(w)) <= MaxFiles }
  /\ edits = 0
  /\ GcmIdle /\ LcIdle /\ WrIdle

NextLc ==
  \/ LcCall
  \/ LcSummaryResolve
  \/ LcSummaryReject
  \/ LcDiffResolve
  \/ LcDiffReject
  \/ \E p \in Paths, c \in EditValues : Edit(p, c)

SpecLc == InitLc /\ [][NextLc]_vars

InitWr ==
  /\ wc = [p \in Paths |-> NoChange]
  /\ edits = 0
  /\ GcmIdle /\ LcIdle /\ WrIdle

NextWr ==
  \/ \E input \in WrInputs : WrCall(input)
  \/ WrMkdirResolve
  \/ \E error \in Errors : WrMkdirReject(error)
  \/ WrWriteResolve
  \/ \E error \in Errors : WrWriteReject(error)

SpecWr == InitWr /\ [][NextWr]_vars

\* ------------------------------------------------------------------ claims
startsWith(s, pre) == Len(s) >= Len(pre) /\ SubSeq(s, 1, Len(pre)) = pre

GcmReturnedObject == gcmPc = "done" /\ gcmResult.kind = "object"

AnyPath(summary, P(_)) ==
  \E i \in 1..Len(summary.files) : P(Chars(summary.files[i].file))

\* the type the ordered rules of C1 name for a non-empty summary
C1_RuleType(type, summary) ==
  CASE type # NoType -> type
    [] type = NoType
       /\ AnyPath(summary, LAMBDA f : includes(f, <<"t","e","s","t">>) \/ includes(f, <<"s","p","e","c">>))
       -> "test"
    [] type = NoType
       /\ ~AnyPath(summary, LAMBDA f : includes(f, <<"t","e","s","t">>) \/ includes(f, <<"s","p","e","c">>))
       /\ AnyPath(summary, LAMBDA f : includes(f, <<"R","E","A","D","M","E">>) \/ endsWith(f, <<".","m","d">>))
       -> "docs"
    [] type = NoType
       /\ ~AnyPath(summary, LAMBDA f : includes(f, <<"t","e","s","t">>) \/ includes(f, <<"s","p","e","c">>))
       /\ ~AnyPath(summary, LAMBDA f : includes(f, <<"R","E","A","D","M","E">>) \/ endsWith(f, <<".","m","d">>))
       /\ AnyPath(summary, LAMBDA f : includes(f, <<"p","a","c","k","a","g","e",".","j","s","o","n">>))
       -> "chore"
    [] OTHER -> IF summary.insertions > summary.deletions THEN "feat" ELSE "fix"

\* C1: for a non-empty summary generateCommitMessage resolves exactly one type
\* of the closed set: the explicit type verbatim, else the first match of
\* test/spec -> test, README/.md -> docs, package.json -> chore,
\* insertions > deletions -> feat, else fix; a path containing 'test' gives
\* test whatever the counts and the other matches are.
C1_TypeByOrderedRules ==
  (gcmPc \in {"diff", "done"} /\ Len(gcmSummary.files) > 0) =>
    /\ gcmDetected \in CommitTypes
    /\ gcmDetected = C1_RuleType(gcmType, gcmSummary)
    /\ (gcmType = NoType /\ AnyPath(gcmSummary, LAMBDA f : includes(f, <<"t","e","s","t">>)))
         => gcmDetected = "test"
    /\ gcmPc = "done" => gcmResult.stats.type = gcmDetected

C1_Witness ==
  /\ GcmReturnedObject
  /\ gcmType = NoType
  /\ {"README.md", "src/tools.test.ts"} \subseteq changedFilesOf(gcmSummary)
  /\ gcmSummary.insertions <= gcmSummary.deletions
  /\ gcmResult.stats.type = "test"

\* C2: with a summary of zero files generateCommitMessage returns exactly the
\* text "No changes detected in the repository", with or without an explicit
\* type, and on that path classifies nothing, composes nothing and returns no
\* stats.
C2_EmptySummarySentinel ==
  (gcmPc \in {"diff", "done"} /\ Len(gcmSummary.files) = 0) =>
    /\ gcmPc = "done"
    /\ gcmResult = [kind |-> "string", text |-> NoChangesText]
    /\ gcmDetected = NoType
    /\ gcmReads = <<"diffSummary">>

C2_Witness ==
  /\ gcmPc = "done"
  /\ ChangedPaths(wc) = {}
  /\ gcmType = "feat"
  /\ gcmResult.kind = "string"
  /\ gcmResult.text = NoChangesText

\* C3: with exactly one changed file whose path contains '/', the message is
\* the type, then '(' + the text before the first '/' + ')', then the colon;
\* with one file without '/' and with more than one file, the colon follows
\* the type directly.
C3_ScopeInHeadline ==
  GcmReturnedObject =>
    LET files == gcmSummary.files
        path == Chars(files[1].file)
        msg == gcmResult.commitMessage
        type == Chars(gcmResult.stats.type)
    IN IF Len(files) = 1 /\ (\E k \in 1..Len(path) : path[k] = "/")
         THEN \E k \in 1..Len(path) :
                /\ path[k] = "/"
                /\ \A j \in 1..(k - 1) : path[j] # "/"
                /\ startsWith(msg, type \o <<"(">> \o SubSeq(path, 1, k - 1) \o <<")",":"," ">>)
         ELSE startsWith(msg, type \o <<":"," ">>)

C3_Witness ==
  /\ GcmReturnedObject
  /\ Len(gcmSummary.files) = 1
  /\ gcmSummary.files[1].file = "src/tools.ts"
  /\ startsWith(gcmResult.commitMessage, <<"f","e","a","t","(","s","r","c",")",":"," ">>)

\* the fixed phrase of each type, as C4 lists them
C4_Phrase(type) ==
  CASE type = "feat" -> <<"a","d","d"," ","n","e","w"," ","f","u","n","c","t","i","o","n","a","l","i","t","y">>
    [] type = "fix" -> <<"r","e","s","o","l","v","e"," ","i","s","s","u","e","s">>
    [] type = "docs" -> <<"u","p","d","a","t","e"," ","d","o","c","u","m","e","n","t","a","t","i","o","n">>
    [] type = "refactor" -> <<"i","m","p","r","o","v","e"," ","c","o","d","e"," ","s","t","r","u","c","t","u","r","e">>
    [] type = "test" -> <<"a","d","d","/","u","p","d","a","t","e"," ","t","e","s","t","s">>
    [] type = "chore" -> <<"u","p","d","a","t","e"," ","d","e","p","e","n","d","e","n","c","i","e","s","/","c","o","n","f","i","g">>
    [] type \in {"style", "perf"} -> <<"m","a","k","e"," ","c","h","a","n","g","e","s">>

\* C4: the returned commitMessage is exactly '<type><(scope)?>: <description>',
\* a blank line, '<N> file(s) changed, <I> insertion(s), <D> deletion(s)', with
\* the fixed phrase of the type; the text is a function of summary and type.
C4_MessageFormat ==
  GcmReturnedObject =>
    LET type == C1_RuleType(gcmType, gcmSummary)
        first == Chars(gcmSummary.files[1].file)
        rest == <<":"," ">> \o C4_Phrase(type) \o <<"\n","\n">>
                  \o Decimal(Cardinality(ChangedPaths(wc))) \o <<" ","f","i","l","e","(","s",")"," ","c","h","a","n","g","e","d",","," ">>
                  \o Decimal(gcmSummary.insertions) \o <<" ","i","n","s","e","r","t","i","o","n","(","s",")",","," ">>
                  \o Decimal(gcmSummary.deletions) \o <<" ","d","e","l","e","t","i","o","n","(","s",")">>
    IN \/ gcmResult.commitMessage = Chars(type) \o rest
       \/ \E k \in 1..Len(first) :
            gcmResult.commitMessage =
              Chars(type) \o <<"(">> \o SubSeq(first, 1, k) \o <<")">> \o rest

C4_Witness ==
  /\ GcmReturnedObject
  /\ gcmType = "perf"
  /\ gcmSummary.insertions >= 10
  /\ Len(gcmSummary.files) = 2
  /\ includes(gcmResult.commitMessage, <<"p","e","r","f",":"," ","m","a","k","e"," ","c","h","a","n","g","e","s","\n","\n","2"," ","f","i","l","e","(","s",")"," ","c","h","a","n","g","e","d",","," ">>)

\* C5: listChanges returns exactly one {file, diff} entry for every file of
\* the summary it read whose path is not exactly 'dist' or 'bun.lock', in the
\* summary's order, and nothing else, also when the working copy is modified
\* between the per-file diff reads (a diff may then be empty or of a later
\* state).
C5_ListFromOneSnapshot ==
  lcPc = "done" =>
    LET kept == SelectSeq(lcSummary,
                          LAMBDA f : f.file # "dist" /\ f.file # "bun.lock")
    IN /\ lcResult.kind = "array"
       /\ Len(lcResult.diffs) = Len(kept)
       /\ \A i \in 1..Len(kept) :
            /\ lcResult.diffs[i].file = kept[i].file
            /\ \/ lcResult.diffs[i].diff.empty
               \/ lcResult.diffs[i].diff.insertions + lcResult.diffs[i].diff.deletions
                    = MaxLines

C5_Witness ==
  /\ lcPc = "done"
  /\ edits > 0
  /\ Len(lcSummary) = 2
  /\ lcSummary[1].file = "dist"
  /\ lcSummary[2].file = "dist/index.js"
  /\ lcResult.diffs = << [file |-> "dist/index.js", diff |-> [empty |-> TRUE]] >>

\* C6: generateCommitMessage applies no exclusion: stats.filesChanged is the
\* number of summary entries, stats.insertions/deletions the summary totals,
\* stats.type the type printed in the headline, affectedFiles every summary
\* path in order, 'dist' and 'bun.lock' included.
C6_StatsUnfiltered ==
  GcmReturnedObject =>
    LET all == SelectSeq(PathOrder, LAMBDA p : wc[p].changed) IN
      /\ gcmResult.stats.filesChanged = Len(all)
      /\ gcmResult.stats.filesChanged = Len(gcmSummary.files)
      /\ gcmResult.stats.insertions = gcmSummary.insertions
      /\ gcmResult.stats.deletions = gcmSummary.deletions
      /\ gcmResult.affectedFiles = all
      /\ gcmResult.stats.type \in CommitTypes
      /\ \/ startsWith(gcmResult.commitMessage, Chars(gcmResult.stats.type) \o <<":">>)
         \/ startsWith(gcmResult.commitMessage, Chars(gcmResult.stats.type) \o <<"(">>)

C6_Witness ==
  /\ GcmReturnedObject
  /\ gcmResult.affectedFiles = <<"bun.lock", "dist">>
  /\ gcmResult.stats.filesChanged = 2
  /\ gcmResult.stats.insertions = 2 * MaxLines

\* C7: writeReview never raises: a failure of mkdir or of writeFile comes back
\* as {success: false, error, filePath}; success: true comes only after mkdir
\* and the one writeFile both completed; after a failed mkdir no write is
\* attempted.
C7_WriteReviewNeverRaises ==
  /\ wrPc # "done" => wrResult = Pending
  /\ wrPc = "done" =>
       /\ wrResult.kind = "object"
       /\ wrResult.filePath = wrInput.filePath
       /\ IF wrResult.success
            THEN /\ Len(wrOps) = 2
                 /\ wrOps[1].op = "mkdir" /\ wrOps[1].outcome = "ok"
                 /\ wrOps[2].op = "writeFile" /\ wrOps[2].outcome = "ok"
                 /\ wrDisk = [written |-> TRUE, path |-> wrInput.filePath,
                              content |-> wrDoc]
            ELSE /\ DOMAIN wrResult = {"kind", "success", "error", "filePath"}
                 /\ wrOps[Len(wrOps)].outcome = "failed"
                 /\ ~wrDisk.written
  /\ (Len(wrOps) >= 1 /\ wrOps[1].outcome = "failed") => Len(wrOps) = 1
  /\ Cardinality({i \in 1..Len(wrOps) : wrOps[i].op = "writeFile"}) <= 1

C7_Witness ==
  /\ wrPc = "done"
  /\ ~wrResult.success
  /\ wrResult.error = <<"E","A","C","C","E","S">>
  /\ wrOps = << [op |-> "mkdir", path |-> <<"r","e","v","i","e","w","s","/","o","u","t">>, outcome |-> "failed"] >>

SummarySection ==
  <<"\n","\n","#","#"," ","S","u","m","m","a","r","y","\n","\n","T","h","i","s"," ","r","e","v","i","e","w"," ","w","a","s"," ","g","e","n","e","r","a","t","e","d"," ","a","u","t","o","m","a","t","i","c","a","l","l","y","."," ","P","l","e","a","s","e"," ","r","e","v","i","e","w"," ","t","h","e"," ","s","u","g","g","e","s","t","i","o","n","s"," ","a","n","d"," ","a","p","p","l","y"," ","t","h","e","m"," ","a","s"," ","a","p","p","r","o","p","r","i","a","t","e",".","\n">>

\* a markdown heading of any level: a line of 1 to 6 '#' and a space
HasHeading(content) ==
  \E i \in 1..Len(content), k \in 1..6 :
    /\ i = 1 \/ content[i - 1] = "\n"
    /\ i + k <= Len(content)
    /\ \A j \in i..(i + k - 1) : content[j] = "#"
    /\ content[i + k] = " "

WrDocBuilt == wrPc = "write" \/ (wrPc = "done" /\ wrDisk.written)

\* what follows the verbatim review content in the document
WrTail ==
  LET title == IF wrInput.title.given /\ wrInput.title.text # << >>
                 THEN wrInput.title.text ELSE <<"C","o","d","e"," ","R","e","v","i","e","w">>
      stampLen == IF startsWith(SubSeq(wrDoc, Len(title) + 5, Len(wrDoc)),
                                <<"*","*","G","e","n","e","r","a","t","e","d",":","*","*"," ">>)
                    THEN Len(<<"*","*","G","e","n","e","r","a","t","e","d",":","*","*"," ">>) + Len(isoNow) + 2 ELSE 0
      before == Len(title) + 4 + stampLen + 5
  IN IF SubSeq(wrDoc, before + 1, before + Len(wrInput.reviewContent))
          = wrInput.reviewContent
       THEN [verbatim |-> TRUE,
             stamped |-> stampLen > 0,
             text |-> SubSeq(wrDoc, before + Len(wrInput.reviewContent) + 1,
                             Len(wrDoc))]
       ELSE [verbatim |-> FALSE, stamped |-> stampLen > 0, text |-> << >>]

\* C8 as amended: the '## Summary' section follows the verbatim review content
\* if and only if the content does not contain '##' (a heading of level 2 or
\* deeper, or any other '##'): content whose only headings are of level 1
\* gets the section; the '**Generated:**' line is present if and only if
\* includeTimestamp is true.
C8_SummaryIffNoDoubleHash ==
  WrDocBuilt =>
    /\ WrTail.verbatim
    /\ WrTail.text \in {<< >>, SummarySection}
    /\ WrTail.text = SummarySection <=> ~includes(wrInput.reviewContent, <<"#","#">>)
    /\ WrTail.stamped <=> wrInput.includeTimestamp

\* C8 as stated: the Summary section is appended if and only if the content
\* holds no markdown heading of any level.
C8_SummaryIffNoHeading ==
  WrDocBuilt =>
    /\ WrTail.verbatim
    /\ WrTail.text = SummarySection <=> ~HasHeading(wrInput.reviewContent)
    /\ WrTail.stamped <=> wrInput.includeTimestamp

C8_Witness ==
  /\ wrPc = "done"
  /\ wrDisk.written
  /\ wrInput.reviewContent = <<"#"," ","F","i","n","d","i","n","g","s","\n","o","k">>
  /\ HasHeading(wrInput.reviewContent)
  /\ ~wrInput.includeTimestamp
  /\ endsWith(wrDisk.content, <<"-","-","-","\n","\n","#"," ","F","i","n","d","i","n","g","s","\n","o","k">> \o SummarySection)

\* C9: generateCommitMessage never requests full diff text: its only
\* repository read is the one summary read, and a failing diff read cannot
\* make it fail.
C9_SummaryReadOnly ==
  /\ \A i \in 1..Len(gcmReads) : gcmReads[i] = "diffSummary"
  /\ Len(gcmReads) <= 1
  /\ gcmPc = "failed" => gcmResult.from = "diffSummary"

\* C10: listChanges attempts every read at most once; when a read fails the
\* call fails with that error, no read follows the failing one and no partial
\* sequence of diffs is returned.
C10_ReadsOnceFailFast ==
  /\ \A i, j \in 1..Len(lcReads) : i # j => lcReads[i] # lcReads[j]
  /\ Len(lcReads) >= 1 => lcReads[1] = [op |-> "diffSummary"]
  /\ lcPc = "failed" =>
       /\ lcResult.kind = "error"
       /\ DOMAIN lcResult = {"kind", "from"}
       /\ IF lcResult.from = "diffSummary"
            THEN lcReads = << [op |-> "diffSummary"] >>
            ELSE /\ Len(lcReads) = Len(lcDiffs) + 2
                 /\ lcReads[Len(lcReads)] = [op |-> "diff", file |-> lcSummary[lcIdx].file]
                 /\ \A i \in 1..Len(lcDiffs) :
                      lcReads[i + 1] = [op |-> "diff", file |-> lcDiffs[i].file]
  /\ lcPc # "done" => lcResult.kind # "array"

C10_Witness ==
  /\ lcPc = "failed"
  /\ lcResult = [kind |-> "error", from |-> "diff"]
  /\ Len(lcDiffs) = 1
  /\ Len(lcReads) = 3

====
